---- MODULE Spec2Model ----
(***************************************************************************)
(* Model of opera-note-exporter.cpp: the line-by-line parser of an Opera   *)
(* notes export (OperaNoteParser::ParseFile) and the Tomboy note writer    *)
(* (OperaNoteParser::WriteFiles, Note::CreateTomboyNote).                  *)
(*                                                                         *)
(* A std::string is a sequence of characters; a character is a one-letter  *)
(* TLA+ string, except the control byte 0x02, written STX.                 *)
(***************************************************************************)
EXTENDS Integers, Sequences, FiniteSets, TLC

\* ------------------------------------------------------------- characters
STX == "STX"
TAB == "\t"
NL  == "\n"

\* ----------------------------------------------------------------- bounds
\* Longest input file, in lines, of the parser specification.
MaxLines == 6
\* Longest string handed to a pure function in SpecPure.
MaxLen == 4

\* ------------------------------------------------------ string constants
sFOLDER   == <<"#","F","O","L","D","E","R">>
sNOTE     == <<"#","N","O","T","E">>
sTRASH    == <<"T","R","A","S","H"," ","F","O","L","D","E","R">>
sYES      == <<"Y","E","S">>
sNO       == <<"N","O">>
sUNIQUEID == <<"U","N","I","Q","U","E","I","D">>
sNAME     == <<"N","A","M","E">>
sCREATED  == <<"C","R","E","A","T","E","D">>
sNoTitle  == <<"<","n","o","-","t","i","t","l","e",">">>
sNotebook == <<"s","y","s","t","e","m",":","n","o","t","e","b","o","o","k",":">>
sDotNote  == <<".","n","o","t","e">>
sSlash    == <<"/">>

sAmp  == <<"&","a","m","p",";">>
sQuot == <<"&","q","u","o","t",";">>
sApos == <<"&","a","p","o","s",";">>
sLt   == <<"&","l","t",";">>
sGt   == <<"&","g","t",";">>

\* std::string::substr(pos, n): n characters from 0-based pos, clipped at the end.
SubStr(s, pos, n) ==
    SubSeq(s, pos + 1, IF pos + n > Len(s) THEN Len(s) ELSE pos + n)

\* ---------------------------------------------------------------- EscapeXml
\* Mutant of EscapeChar: the apostrophe case appends the quote entity.
EscapeCharAposAsQuot(c) ==
    CASE c = "&"  -> sAmp
      [] c = "\"" -> sQuot
      [] c = "'"  -> sQuot
      [] c = "<"  -> sLt
      [] c = ">"  -> sGt
      [] OTHER    -> <<c>>

\* The switch of EscapeXml: what is appended to the buffer for character c.
EscapeChar(c) ==
    CASE c = "&"  -> sAmp
      [] c = "\"" -> sQuot
      [] c = "'"  -> sApos
      [] c = "<"  -> sLt
      [] c = ">"  -> sGt
      [] OTHER    -> <<c>>

RECURSIVE EscapeXmlLoop(_, _, _)
EscapeXmlLoop(str, pos, buffer) ==
    IF pos = Len(str) THEN buffer
    ELSE EscapeXmlLoop(str, pos + 1, buffer \o EscapeChar(str[pos + 1]))

EscapeXml(str) == EscapeXmlLoop(str, 0, <<>>)

\* ------------------------------------------------------- line classifier
RECURSIVE NameLenLoop(_, _, _)
NameLenLoop(line, begin, len) ==
    IF Len(line) > begin + len /\ line[begin + len + 1] # "="
    THEN NameLenLoop(line, begin, len + 1)
    ELSE len

\* Mutant of GetLinePropertyName: the leading tab is not skipped.
GetLinePropertyNameKeepTab(line) ==
    IF Len(line) = 0 THEN <<>>
    ELSE SubStr(line, 0, NameLenLoop(line, 0, 0))

GetLinePropertyName(line) ==
    IF Len(line) = 0 THEN <<>>
    ELSE LET begin == IF line[1] = TAB THEN 1 ELSE 0
             len   == NameLenLoop(line, begin, 0)
         IN  SubStr(line, begin, len)

RECURSIVE ValueBeginLoop(_, _)
ValueBeginLoop(line, begin) ==
    IF Len(line) > begin /\ line[begin + 1] # "="
    THEN ValueBeginLoop(line, begin + 1)
    ELSE begin

GetLinePropertyValue(line) ==
    LET begin == ValueBeginLoop(line, 0) + 1
    IN  IF begin >= Len(line) THEN <<>>
        ELSE SubStr(line, begin, Len(line))

\* ------------------------------------------------------ NAME value parsing
\* boost::tokenizer<char_separator<char>> with the one dropped delimiter STX
\* and empty tokens dropped: the first token is the first maximal run of
\* non-STX characters.  FirstTokenBegin is the 0-based index of its first
\* character, Len(str) when there is none (tokens.begin() == tokens.end()).
RECURSIVE FirstTokenBegin(_, _)
FirstTokenBegin(str, pos) ==
    IF pos < Len(str) /\ str[pos + 1] = STX
    THEN FirstTokenBegin(str, pos + 1)
    ELSE pos

RECURSIVE TokenLen(_, _, _)
TokenLen(str, begin, len) ==
    IF begin + len < Len(str) /\ str[begin + len + 1] # STX
    THEN TokenLen(str, begin, len + 1)
    ELSE len

HasToken(str) == FirstTokenBegin(str, 0) < Len(str)

FirstToken(str) ==
    LET b == FirstTokenBegin(str, 0) IN SubStr(str, b, TokenLen(str, b, 0))

\* Mutant of ParseNoteTitle: the tokenizer keeps empty tokens.
ParseNoteTitleKeepEmpty(str) ==
    IF Len(str) > 0 THEN SubStr(str, 0, TokenLen(str, 0, 0)) ELSE sNoTitle

ParseNoteTitle(str) ==
    IF HasToken(str) THEN FirstToken(str) ELSE sNoTitle

\* boost::replace_all(note, "\x02\x02", "\n"): left to right, no overlap.
RECURSIVE ReplaceAllLoop(_, _, _)
ReplaceAllLoop(str, pos, acc) ==
    IF pos >= Len(str) THEN acc
    ELSE IF pos + 1 < Len(str) /\ str[pos + 1] = STX /\ str[pos + 2] = STX
         THEN ReplaceAllLoop(str, pos + 2, Append(acc, NL))
         ELSE ReplaceAllLoop(str, pos + 1, Append(acc, str[pos + 1]))

\* Mutant of ParseNote: boost::replace_first, only the first doubled STX is
\* replaced.
RECURSIVE ReplaceFirstLoop(_, _, _)
ReplaceFirstLoop(str, pos, acc) ==
    IF pos >= Len(str) THEN acc
    ELSE IF pos + 1 < Len(str) /\ str[pos + 1] = STX /\ str[pos + 2] = STX
         THEN Append(acc, NL) \o SubStr(str, pos + 2, Len(str) - pos - 2)
         ELSE ReplaceFirstLoop(str, pos + 1, Append(acc, str[pos + 1]))

ParseNoteFirstOnly(str) == ReplaceFirstLoop(str, 0, <<>>)

\* Mutant of ParseNote: the doubled STX is not replaced.
ParseNoteNoReplace(str) == str

ParseNote(str) == ReplaceAllLoop(str, 0, <<>>)

\* boost::tokenizer dereferenced at tokens.end() (no token): undefined
\* behaviour.  The token iterator holds a cleared std::string, so a build with
\* assertions disabled yields the empty string and a build with assertions
\* aborts; the caller picks the outcome.
ParseFolderName(str) ==
    IF HasToken(str) THEN FirstToken(str) ELSE <<>>

\* ------------------------------------------------ boost::lexical_cast<uint32_t>
\* A uint32 is kept as two 16-bit limbs <<high, low>>: the value is
\* high * Limb + low, and it overflows when high reaches Limb.
Limb == 65536
BadLexicalCast == <<-1, -1>>

Digits == <<"0","1","2","3","4","5","6","7","8","9">>
IsDigit(c) == \E d \in 1..10 : Digits[d] = c
DigitVal(c) == (CHOOSE d \in 1..10 : Digits[d] = c) - 1

RECURSIVE DecimalLoop(_, _, _)
DecimalLoop(s, pos, acc) ==
    IF pos = Len(s) THEN acc
    ELSE IF ~IsDigit(s[pos + 1]) THEN BadLexicalCast
    ELSE LET low  == acc[2] * 10 + DigitVal(s[pos + 1])
             high == acc[1] * 10 + (low \div Limb)
         IN  IF high >= Limb THEN BadLexicalCast
             ELSE DecimalLoop(s, pos + 1, <<high, low % Limb>>)

\* 0u - v, modulo 2^32.
NegateU32(v) ==
    <<(Limb - 1 - v[1] + (IF v[2] = 0 THEN 1 ELSE 0)) % Limb, (Limb - v[2]) % Limb>>

\* An optional sign, then one or more decimal digits that fit 32 bits; a
\* leading minus negates modulo 2^32.  Anything else throws.
LexicalCastU32(s) ==
    LET signed == Len(s) > 0 /\ s[1] \in {"+", "-"}
        digits == IF signed THEN Tail(s) ELSE s
        v      == IF Len(digits) = 0 THEN BadLexicalCast
                  ELSE DecimalLoop(digits, 0, <<0, 0>>)
    IN  IF v = BadLexicalCast THEN BadLexicalCast
        ELSE IF signed /\ s[1] = "-" THEN NegateU32(v)
        ELSE v

\* ------------------------------------------------------------------- Note
NotADateTime == "not_a_date_time"

\* Note(): every string and the tag vector empty, the time not_a_date_time.
NewNote ==
    [title_ |-> <<>>, note_ |-> <<>>, creation_time_ |-> NotADateTime,
     tags_ |-> <<>>, uid_ |-> <<>>]

\* The posix time of `time` seconds after the epoch (the time zone shift and
\* the formatting of GetTomboyDateString are one-to-one on it).
SetCreationTimeFromUnixTime(note, time) ==
    [note EXCEPT !.creation_time_ = time]

GetTomboyDateString(note) == note.creation_time_

\* The rendered document, as the contents of its elements.
AsTomboyNote(note, opts) ==
    [title   |-> EscapeXml(note.title_),
     content |-> EscapeXml(note.note_),
     date    |-> GetTomboyDateString(note),
     tags    |-> [t \in 1..Len(note.tags_) |->
                    (IF opts.convert_tags_to_notebooks THEN sNotebook ELSE <<>>)
                    \o EscapeXml(note.tags_[t])]]

OutFileName(note, opts) == opts.output \o sSlash \o note.uid_ \o sDotNote

MsgSkipEmpty == "Skipping empty note"
MsgNoUid     == "Failed to create note: Note does not have UID"
MsgNoFile    == "Failed to create note: Failed to create file"
MsgNoInput   == "Failed to open input file"

\* ------------------------------------------------------------ input lines
Prop(name, value) == name \o <<"=">> \o value
Tabbed(l) == <<TAB>> \o l

sRecipes  == <<"R","e","c","i","p","e","s">>
sWork     == <<"W","o","r","k">>
sImported == <<"I","m","p","o","r","t","e","d">>
sAbc123   == <<"a","b","c","1","2","3">>
sSoupNote == <<"S","o","u","p",STX,"B","o","i","l",STX,STX,"S","e","r","v","e">>
sEpoch    == <<"1","0","0","0","0","0","0","0","0","0">>
sOutDir   == <<"e","x","p","o","r","t","e","d">>
sInFile   == <<"n","o","t","e","s",".","a","d","r">>

\* The lines an input file is made of: the record markers and the properties
\* of the export format, with well-formed and malformed values.
Lines ==
    { sFOLDER,
      sNOTE,
      Tabbed(Prop(sNAME, sRecipes \o <<STX>>)),
      Tabbed(Prop(sNAME, sSoupNote)),
      Prop(sNAME, sWork \o <<STX, STX, "<", "&">>),
      Prop(sNAME, <<>>),
      Prop(sNAME, <<STX>>),
      Tabbed(Prop(sUNIQUEID, sAbc123)),
      Prop(sUNIQUEID, <<"u">>),
      Tabbed(Prop(sCREATED, sEpoch)),
      Prop(sCREATED, <<"x">>),
      Tabbed(Prop(sTRASH, sYES)),
      Tabbed(Prop(sTRASH, sNO)) }

\* The option sets of a run (--tag, --export-trash, --tags-to-notebooks).
OptionSets ==
    [default_tag : {<<>>, sImported},
     export_trash : BOOLEAN,
     convert_tags_to_notebooks : BOOLEAN,
     input : {sInFile},
     output : {sOutDir}]

\* The options of a run without option arguments.
DefaultOptions ==
    [default_tag |-> <<>>, export_trash |-> FALSE,
     convert_tags_to_notebooks |-> FALSE, input |-> sInFile,
     output |-> sOutDir]

\* ------------------------------------------------------------------ state
VARIABLES
    pc,                  \* where the program is: open, parse, write, done,
                         \* exit (exit(-1)), terminate (uncaught exception),
                         \* crash (undefined behaviour that aborts), pure;
                         \* main, usage (return 1), badargs (return -1)
    options_,            \* the parser's Options
    line,                \* the line read last
    nread,               \* lines read so far
    current_folder_name, \* ParseFile's locals
    in_folder,
    in_trash,
    notes_,              \* the parsed notes
    i,                   \* WriteFiles' loop index (0-based)
    files,               \* the output directory: file name -> document
    cout,                \* messages written to standard output
    cerr,                \* messages written to standard error
    hdr_trashed,         \* history: a TRASH FOLDER=YES line was read in the
                         \* header of the folder opened last
    was_trash,           \* history: in_trash before the line read last
    fn, arg, res,        \* SpecPure: the function applied, its input, its result
    argv                 \* SpecMain: the arguments after the program name

vars == <<pc, options_, line, nread, current_folder_name, in_folder, in_trash,
          notes_, i, files, cout, cerr, hdr_trashed, was_trash, fn, arg, res,
          argv>>

parserVars == <<line, nread, current_folder_name, in_folder, in_trash, notes_,
                hdr_trashed, was_trash>>
\* The variables that a run from ParseFile on leaves alone.
pureVars == <<fn, arg, res, argv>>

NoFiles == [f \in {} |-> NewNote]

\* The state at the start of ParseFile, for each set of options.
Init ==
    /\ pc = "open"
    /\ options_ \in OptionSets
    /\ line = <<>>
    /\ nread = 0
    /\ current_folder_name = <<>>
    /\ in_folder = FALSE
    /\ in_trash = FALSE
    /\ notes_ = <<>>
    /\ i = 0
    /\ files = NoFiles
    /\ cout = <<>>
    /\ cerr = <<>>
    /\ hdr_trashed = FALSE
    /\ was_trash = FALSE
    /\ fn = "none" /\ arg = <<>> /\ res = <<>>
    /\ argv = <<>>

\* ParseFile, opening the input: a file of an empty name never opens.
OpenInput ==
    /\ pc = "open"
    /\ \E is_open \in (IF options_.input = <<>> THEN {FALSE} ELSE BOOLEAN) :
         IF is_open
         THEN pc' = "parse" /\ cerr' = cerr
         ELSE pc' = "exit" /\ cerr' = Append(cerr, MsgNoInput)
    /\ UNCHANGED <<options_, parserVars, i, files, cout, pureVars>>

\* Mutant of TrashFlag: a #FOLDER line does not clear the flag.
TrashFlagKept(trash, prop, value) ==
    IF prop = sTRASH /\ value = sYES THEN TRUE ELSE trash

\* Mutant of TrashFlag: the value of the TRASH FOLDER line is not tested.
TrashFlagAnyValue(trash, prop, value) ==
    IF prop = sFOLDER THEN FALSE
    ELSE IF prop = sTRASH THEN TRUE
    ELSE trash

\* in_trash after the #FOLDER / TRASH FOLDER test of one line.
TrashFlag(trash, prop, value) ==
    IF prop = sFOLDER THEN FALSE
    ELSE IF prop = sTRASH /\ value = sYES THEN TRUE
    ELSE trash

\* Mutant of SkipLine: the negation of export_trash is missing.
SkipLineWhenExporting(trash, opts) == trash /\ opts.export_trash

\* Whether the rest of the loop body is skipped for this line.
SkipLine(trash, opts) == trash /\ ~opts.export_trash

\* Mutant of StartNote: the folder tag is added before the default tag.
StartNoteFolderFirst(opts, folder_name) ==
    [NewNote EXCEPT !.tags_ =
        (IF Len(folder_name) > 0 THEN <<folder_name>> ELSE <<>>)
        \o (IF Len(opts.default_tag) > 0 THEN <<opts.default_tag>> ELSE <<>>)]

\* The note pushed for a #NOTE line.
StartNote(opts, folder_name) ==
    [NewNote EXCEPT !.tags_ =
        (IF Len(opts.default_tag) > 0 THEN <<opts.default_tag>> ELSE <<>>)
        \o (IF Len(folder_name) > 0 THEN <<folder_name>> ELSE <<>>)]

\* Mutant of AppliesUid: the in_folder test is missing.
AppliesUidInHeader(folder, prop) == prop = sUNIQUEID

\* Whether a line sets the uid of the last note.
AppliesUid(folder, prop) == ~folder /\ prop = sUNIQUEID

\* notes_.rbegin()->f(...): the last note replaced by `note`.
SetLast(notes, note) == [notes EXCEPT ![Len(notes)] = note]
Last(notes) == notes[Len(notes)]

SetUid(note, uid) == [note EXCEPT !.uid_ = uid]
SetTitle(note, title) == [note EXCEPT !.title_ = title]
SetNote(note, text) == [note EXCEPT !.note_ = text]

\* Undefined behaviour (notes_.rbegin() of an empty vector, *tokens.begin() of
\* an empty token range): the process aborts, or goes on with no visible effect.
UBOutcomes == {"abort", "go_on"}

\* One iteration of ParseFile's loop on line l; prop and value are the
\* line's property name and value, computed once.
ParseStep(l) ==
    \E prop \in {GetLinePropertyName(l)}, value \in {GetLinePropertyValue(l)} :
    LET trash   == TrashFlag(in_trash, prop, value)
        noNote  == Len(notes_) = 0
        Same    == UNCHANGED <<pc, notes_, current_folder_name, in_folder>>
        Undef   == /\ \E ub \in UBOutcomes :
                        pc' = IF ub = "abort" THEN "crash" ELSE pc
                   /\ UNCHANGED <<notes_, current_folder_name, in_folder>>
        Update(note) ==
                   /\ notes_' = SetLast(notes_, note)
                   /\ UNCHANGED <<pc, current_folder_name, in_folder>>
    IN
    /\ line' = l
    /\ nread' = nread + 1
    /\ in_trash' = trash
    /\ was_trash' = in_trash
    /\ hdr_trashed' = IF prop = sFOLDER THEN FALSE
                      ELSE hdr_trashed \/ (in_folder /\ prop = sTRASH /\ value = sYES)
    /\ IF prop = sFOLDER THEN
            /\ in_folder' = TRUE
            /\ UNCHANGED <<pc, notes_, current_folder_name>>
       ELSE IF SkipLine(trash, options_) THEN Same
       ELSE IF prop = sNOTE THEN
            /\ notes_' = Append(notes_, StartNote(options_, current_folder_name))
            /\ in_folder' = FALSE
            /\ UNCHANGED <<pc, current_folder_name>>
       ELSE IF AppliesUid(in_folder, prop) THEN
            IF noNote THEN Undef ELSE Update(SetUid(Last(notes_), value))
       ELSE IF prop = sNAME THEN
            IF in_folder THEN
                \E ub \in IF HasToken(value) THEN {"go_on"} ELSE UBOutcomes :
                    IF ub = "abort"
                    THEN pc' = "crash"
                         /\ UNCHANGED <<notes_, current_folder_name, in_folder>>
                    ELSE /\ current_folder_name' = ParseFolderName(value)
                         /\ UNCHANGED <<pc, notes_, in_folder>>
            ELSE IF noNote THEN Undef
            ELSE Update(SetNote(SetTitle(Last(notes_), ParseNoteTitle(value)),
                                ParseNote(value)))
       ELSE IF prop = sCREATED THEN
            LET date_val == LexicalCastU32(value) IN
            IF date_val = BadLexicalCast
            THEN pc' = "terminate" /\ UNCHANGED <<notes_, current_folder_name, in_folder>>
            ELSE IF noNote THEN Undef
            ELSE Update(SetCreationTimeFromUnixTime(Last(notes_), date_val))
       ELSE Same

\* ParseFile, one line of the input.
ParseLine ==
    /\ pc = "parse"
    /\ nread < MaxLines
    /\ \E l \in Lines : ParseStep(l)
    /\ UNCHANGED <<options_, i, files, cout, cerr, pureVars>>

\* ParseFile at the end of the input: the file is closed and the locals
\* (line, current_folder_name, in_folder, in_trash) go out of scope; main
\* then calls WriteFiles.
ParseEof ==
    /\ pc = "parse"
    /\ pc' = "write"
    /\ i' = 0
    /\ line' = <<>>
    /\ nread' = 0
    /\ current_folder_name' = <<>>
    /\ in_folder' = FALSE
    /\ in_trash' = FALSE
    /\ hdr_trashed' = FALSE
    /\ was_trash' = FALSE
    /\ UNCHANGED <<options_, notes_, files, cout, cerr, pureVars>>

\* Mutant of SkipsNote: a note with a uid is not skipped.
SkipsNoteWithoutUid(note) == Len(note.note_) = 0 /\ Len(note.uid_) = 0

\* CreateTomboyNote: does it return before opening a file?
SkipsNote(note) == Len(note.note_) = 0

\* CreateTomboyNote: the messages on standard error.
CreateErrors(note, is_open) ==
    (IF Len(note.uid_) = 0 THEN <<MsgNoUid>> ELSE <<>>)
    \o (IF ~is_open THEN <<MsgNoFile>> ELSE <<>>)

\* CreateTomboyNote: the output directory afterwards.
CreateFile(dir, note, opts, is_open) ==
    IF is_open
    THEN (OutFileName(note, opts) :> AsTomboyNote(note, opts)) @@ dir
    ELSE dir

\* Mutant of LoopGoesOn: the loop stops one note early.
LoopStopsEarly(idx, notes) == idx < Len(notes) - 1

\* WriteFiles' loop condition.
LoopGoesOn(idx, notes) == idx < Len(notes)

\* WriteFiles, one iteration: CreateTomboyNote on notes_[i].
WriteNote ==
    /\ pc = "write"
    /\ LoopGoesOn(i, notes_)
    /\ LET note == notes_[i + 1] IN
       \E is_open \in BOOLEAN :
         /\ IF SkipsNote(note)
            THEN /\ cout' = Append(cout, MsgSkipEmpty)
                 /\ UNCHANGED <<cerr, files>>
            ELSE /\ cerr' = cerr \o CreateErrors(note, is_open)
                 /\ files' = CreateFile(files, note, options_, is_open)
                 /\ cout' = cout
         /\ i' = i + 1
    /\ UNCHANGED <<pc, options_, parserVars, pureVars>>

\* WriteFiles returns; main returns 0.
WriteDone ==
    /\ pc = "write"
    /\ ~LoopGoesOn(i, notes_)
    /\ pc' = "done"
    /\ UNCHANGED <<options_, parserVars, i, files, cout, cerr, pureVars>>

Next == OpenInput \/ ParseLine \/ ParseEof \/ WriteNote \/ WriteDone

Spec == Init /\ [][Next]_vars

\* ------------------------------------------ an input of CREATED lines
s4294967296 == <<"4","2","9","4","9","6","7","2","9","6">>

\* The lines of an input whose CREATED values are a time stamp, a letter, a
\* negative number and the least number that does not fit 32 bits.
CreatedLines ==
    { sFOLDER, sNOTE,
      Tabbed(Prop(sNAME, sSoupNote)),
      Tabbed(Prop(sUNIQUEID, sAbc123)),
      Tabbed(Prop(sTRASH, sYES)),
      Tabbed(Prop(sCREATED, sEpoch)),
      Prop(sCREATED, <<"x">>),
      Prop(sCREATED, <<"-", "1">>),
      Prop(sCREATED, s4294967296) }

\* ParseFile, one iteration of while (std::getline(file, line)) on this input.
ParseCreatedLine ==
    /\ pc = "parse"
    /\ nread < MaxLines
    /\ \E l \in CreatedLines : ParseStep(l)
    /\ UNCHANGED <<options_, i, files, cout, cerr, pureVars>>

NextCreated ==
    OpenInput \/ ParseCreatedLine \/ ParseEof \/ WriteNote \/ WriteDone

SpecCreated == Init /\ [][NextCreated]_vars

\* ------------------------------------------------------------------- main
\* Bounds: the arguments after the program name, and the lines of the input
\* of a run started from main.
MaxArgs == 3
MaxMainLines == 3

MsgBadArgs == "Failed top parse input"
MsgUsage   == "Allowed options"

\* The arguments: --help, three options of desc with a value, the two
\* positional arguments, and an option that desc does not have.
Args ==
    { [name |-> "help", value |-> <<>>],
      [name |-> "tag", value |-> sImported],
      [name |-> "export-trash", value |-> <<"1">>],
      [name |-> "output", value |-> sOutDir],
      [name |-> "positional", value |-> sInFile],
      [name |-> "positional", value |-> sOutDir],
      [name |-> "unknown", value |-> <<>>] }

ArgVectors == UNION {[1..n -> Args] : n \in 0..MaxArgs}

\* p.add("input", 1); p.add("output", 1): the option that the k-th positional
\* argument stands for.
PositionalName(k) ==
    IF k = 1 THEN "input" ELSE IF k = 2 THEN "output" ELSE "too_many"

\* The option name of the argument at pos.
OptionName(args, pos) ==
    IF args[pos].name = "positional"
    THEN PositionalName(Cardinality({k \in 1..pos : args[k].name = "positional"}))
    ELSE args[pos].name

\* command_line_parser::run and po::store throw on an option that is not in
\* desc, on a third positional argument and on an option given twice.
StoreThrows(args) ==
    \/ \E k \in 1..Len(args) : OptionName(args, k) \in {"unknown", "too_many"}
    \/ \E k, m \in 1..Len(args) : k # m /\ OptionName(args, k) = OptionName(args, m)

\* vm.count(name).
Count(args, name) ==
    Cardinality({k \in 1..Len(args) : OptionName(args, k) = name})

\* The value stored for an option, or the value the variable had.
Stored(args, name, old) ==
    IF Count(args, name) = 0 THEN old
    ELSE args[CHOOSE k \in 1..Len(args) : OptionName(args, k) = name].value

\* The options at the start of main.
MainOptions ==
    [default_tag |-> <<>>, export_trash |-> FALSE,
     convert_tags_to_notebooks |-> FALSE, input |-> <<>>, output |-> <<>>]

\* po::notify: the stored values written to the Options.
Notify(args, opts) ==
    [default_tag |-> Stored(args, "tag", opts.default_tag),
     export_trash |-> IF Count(args, "export-trash") = 0 THEN opts.export_trash
                      ELSE Stored(args, "export-trash", <<>>) = <<"1">>,
     convert_tags_to_notebooks |-> opts.convert_tags_to_notebooks,
     input |-> Stored(args, "input", opts.input),
     output |-> Stored(args, "output", opts.output)]

\* vm.count("help") || argc < 3, argc being one more than the arguments.
NeedsHelp(args) == Count(args, "help") > 0 \/ Len(args) + 1 < 3

InitMain ==
    /\ pc = "main"
    /\ options_ = MainOptions
    /\ line = <<>>
    /\ nread = 0
    /\ current_folder_name = <<>>
    /\ in_folder = FALSE
    /\ in_trash = FALSE
    /\ notes_ = <<>>
    /\ i = 0
    /\ files = NoFiles
    /\ cout = <<>>
    /\ cerr = <<>>
    /\ hdr_trashed = FALSE
    /\ was_trash = FALSE
    /\ fn = "none" /\ arg = <<>> /\ res = <<>>
    /\ argv \in ArgVectors

\* main up to the call of ParseFile.
Main ==
    /\ pc = "main"
    /\ IF StoreThrows(argv)
       THEN /\ pc' = "badargs"
            /\ cerr' = cerr \o <<MsgBadArgs, MsgUsage>>
            /\ UNCHANGED <<options_, cout>>
       ELSE /\ options_' = Notify(argv, options_)
            /\ cerr' = cerr
            /\ IF NeedsHelp(argv)
               THEN pc' = "usage" /\ cout' = Append(cout, MsgUsage)
               ELSE pc' = "open" /\ cout' = cout
    /\ UNCHANGED <<parserVars, i, files, pureVars>>

\* The lines of the input of a run started from main.
MainLines ==
    { sNOTE, Tabbed(Prop(sNAME, sSoupNote)), Tabbed(Prop(sUNIQUEID, sAbc123)) }

\* ParseFile, one iteration of while (std::getline(file, line)) on this input.
ParseMainLine ==
    /\ pc = "parse"
    /\ nread < MaxMainLines
    /\ \E l \in MainLines : ParseStep(l)
    /\ UNCHANGED <<options_, i, files, cout, cerr, pureVars>>

NextMain ==
    Main \/ OpenInput \/ ParseMainLine \/ ParseEof \/ WriteNote \/ WriteDone

SpecMain == InitMain /\ [][NextMain]_vars

\* ---------------------------------------------- the functions on their own
\* The characters of the input strings: the five escaped by EscapeXml, a
\* letter, the ';' that ends an entity, and the separators of a line.
Chars == {"&", "\"", "'", "<", ">", "a", ";", "=", TAB, STX}

Strings == UNION {[1..n -> Chars] : n \in 0..MaxLen}

InitPure ==
    /\ pc = "pure"
    /\ options_ = DefaultOptions
    /\ line = <<>>
    /\ nread = 0
    /\ current_folder_name = <<>>
    /\ in_folder = FALSE
    /\ in_trash = FALSE
    /\ notes_ = <<>>
    /\ i = 0
    /\ files = NoFiles
    /\ cout = <<>>
    /\ cerr = <<>>
    /\ hdr_trashed = FALSE
    /\ was_trash = FALSE
    /\ fn = "none" /\ arg \in Strings /\ res = <<>>
    /\ argv = <<>>

Apply(name, result) ==
    /\ pc = "pure"
    /\ fn = "none"
    /\ fn' = name
    /\ res' = result
    /\ UNCHANGED <<pc, options_, parserVars, i, files, cout, cerr, arg, argv>>

CallEscapeXml == Apply("EscapeXml", EscapeXml(arg))
CallGetLinePropertyName == Apply("GetLinePropertyName", GetLinePropertyName(arg))
CallGetLinePropertyValue == Apply("GetLinePropertyValue", GetLinePropertyValue(arg))
CallParseNoteTitle == Apply("ParseNoteTitle", ParseNoteTitle(arg))
CallParseNote == Apply("ParseNote", ParseNote(arg))

\* ParseFolderName; without a token the dereference is undefined behaviour and
\* the call either aborts or returns the empty string.
CallParseFolderName ==
    \/ Apply("ParseFolderName", ParseFolderName(arg))
    \/ /\ ~HasToken(arg)
       /\ Apply("ParseFolderName aborted", <<>>)

NextPure ==
    \/ CallEscapeXml
    \/ CallGetLinePropertyName
    \/ CallGetLinePropertyValue
    \/ CallParseNoteTitle
    \/ CallParseNote
    \/ CallParseFolderName

SpecPure == InitPure /\ [][NextPure]_vars

\* ------------------------------------------------- vocabulary of the claims
Range(s) == {s[k] : k \in 1..Len(s)}

RECURSIVE Flatten(_)
Flatten(ss) == IF ss = <<>> THEN <<>> ELSE Head(ss) \o Flatten(Tail(ss))

StartsWith(s, prefix) ==
    Len(s) >= Len(prefix) /\ SubSeq(s, 1, Len(prefix)) = prefix

\* The reverse mapping of the five entities, read left to right.
Entities ==
    { <<sAmp, "&">>, <<sQuot, "\"">>, <<sApos, "'">>, <<sLt, "<">>, <<sGt, ">">> }

RECURSIVE UnescapeXml(_)
UnescapeXml(s) ==
    IF s = <<>> THEN <<>>
    ELSE IF Head(s) = "&" /\ \E e \in Entities : StartsWith(s, e[1])
    THEN LET e == CHOOSE x \in Entities : StartsWith(s, x[1])
         IN  <<e[2]>> \o UnescapeXml(SubSeq(s, Len(e[1]) + 1, Len(s)))
    ELSE <<Head(s)>> \o UnescapeXml(Tail(s))

EntityOf(c) ==
    IF \E e \in Entities : e[2] = c
    THEN (CHOOSE e \in Entities : e[2] = c)[1]
    ELSE <<c>>

\* The position of the first c in s, Len(s) + 1 when s holds none.
FirstIndex(s, c) ==
    IF c \in Range(s)
    THEN CHOOSE k \in 1..Len(s) : s[k] = c /\ \A j \in 1..(k - 1) : s[j] # c
    ELSE Len(s) + 1

\* s without one leading tab.
TabStripped(s) == IF s # <<>> /\ Head(s) = TAB THEN Tail(s) ELSE s

\* C6: EscapeXml maps each of & " ' < > to its entity, leaves every other
\* character unchanged and in place, and reverse-mapping the entities of the
\* result gives the input back.
C6_EscapeXmlRoundTrip ==
    fn = "EscapeXml" =>
        /\ res = Flatten([k \in 1..Len(arg) |-> EntityOf(arg[k])])
        /\ UnescapeXml(res) = arg

\* C6 witness: a string holding '&', an escaped character after it and a
\* plain character has been escaped.
C6_Witness ==
    /\ fn = "EscapeXml"
    /\ Len(arg) = MaxLen
    /\ arg[1] = "&" /\ arg[2] = "a" /\ arg[3] = ";" /\ arg[4] = "<"
    /\ res = sAmp \o <<"a", ";">> \o sLt

\* C7: the property name is the line after one optional leading tab up to
\* the first '=', the value is what follows the first '='; a line without
\* '=' has an empty value and its tab-stripped self as name; the empty line
\* has an empty name.
C7_LineClassifier ==
    /\ fn = "GetLinePropertyName" =>
          /\ res = SubSeq(TabStripped(arg), 1, FirstIndex(TabStripped(arg), "=") - 1)
          /\ "=" \notin Range(arg) => res = TabStripped(arg)
          /\ arg = <<>> => res = <<>>
    /\ fn = "GetLinePropertyValue" =>
          /\ res = SubSeq(arg, FirstIndex(arg, "=") + 1, Len(arg))
          /\ "=" \notin Range(arg) => res = <<>>

\* C7 witness: the name of a tab-indented line with a '=' has been taken.
C7_Witness ==
    /\ fn = "GetLinePropertyName"
    /\ Len(arg) = MaxLen
    /\ arg[1] = TAB /\ arg[2] = "a" /\ arg[3] = "=" /\ arg[4] = "="
    /\ res = <<"a">>

\* ------------------------------------------ steps, as the claims speak of them
\* The property name and value of a line, by the first '='.
NameOf(l) == SubSeq(TabStripped(l), 1, FirstIndex(TabStripped(l), "=") - 1)
ValueOf(l) == SubSeq(l, FirstIndex(l, "=") + 1, Len(l))

\* Doubled STX replaced by a newline, left to right.
RECURSIVE DoubledToNewline(_)
DoubledToNewline(s) ==
    IF s = <<>> THEN <<>>
    ELSE IF Len(s) >= 2 /\ s[1] = STX /\ s[2] = STX
    THEN <<NL>> \o DoubledToNewline(SubSeq(s, 3, Len(s)))
    ELSE <<Head(s)>> \o DoubledToNewline(Tail(s))

\* A value <title> STX <rest>.
TitlePart(v) == SubSeq(v, 1, FirstIndex(v, STX) - 1)
RestPart(v) == SubSeq(v, FirstIndex(v, STX) + 1, Len(v))

\* This step reads one line of the input.
ReadsLine == pc = "parse" /\ nread' = nread + 1

\* This step reads a line that the trash rule lets through.
ReadsKeptLine ==
    ReadsLine /\ NameOf(line') # sFOLDER /\ ~(in_trash' /\ ~options_.export_trash)

\* This step reads a #NOTE line that starts a note.
StartsNote == ReadsLine /\ Len(notes_') = Len(notes_) + 1

\* This step reads a NAME line applied to the most recently started note.
ReadsNoteName ==
    ReadsKeptLine /\ NameOf(line') = sNAME /\ ~in_folder /\ notes_ # <<>>

\* This step is CreateTomboyNote on notes_[i].
CreatesNote == pc = "write" /\ i < Len(notes_) /\ i' = i + 1
Current == notes_[i + 1]

\* CreateTomboyNote could not open the output file in this step.
OpenFailed == Len(cerr') > Len(cerr) /\ cerr'[Len(cerr')] = MsgNoFile

\* A note that is to be exported: non-empty body and non-empty uid.
Exported(note) == note.note_ # <<>> /\ note.uid_ # <<>>

\* ------------------------------------------------------------------ claims
\* C1 (as claimed): for a note with a non-empty body and an empty uid,
\* CreateTomboyNote reports the error and creates no file.
C1_EmptyUidSkipped ==
    [][ (CreatesNote /\ Current.note_ # <<>> /\ Current.uid_ = <<>>)
        => (files' = files /\ MsgNoUid \in Range(cerr') /\ cerr' # cerr) ]_vars

\* C2 (as claimed): a NAME value <title> STX <rest> (the title not empty)
\* gives the title <title>
\* and a serialized body that, unescaped, is <rest> with doubled STX turned
\* into newlines; the Soup note is written with title Soup, body Boil\nServe
\* and a tag list holding Recipes.
C2_BodyIsRest ==
    [][ /\ (ReadsNoteName /\ STX \in Range(ValueOf(line'))
              /\ Head(ValueOf(line')) # STX)
            => /\ Last(notes_').title_ = TitlePart(ValueOf(line'))
               /\ UnescapeXml(AsTomboyNote(Last(notes_'), options_).content)
                    = DoubledToNewline(RestPart(ValueOf(line')))
        /\ (CreatesNote /\ ~OpenFailed /\ options_ = DefaultOptions
              /\ Current.uid_ = sAbc123 /\ Current.title_ = <<"S","o","u","p">>
              /\ Current.tags_ = <<sRecipes>>)
            => LET doc == files'[OutFileName(Current, options_)] IN
               /\ doc.title = <<"S","o","u","p">>
               /\ UnescapeXml(doc.content) = <<"B","o","i","l",NL,"S","e","r","v","e">>
               /\ sRecipes \in Range(doc.tags) ]_vars

\* C2 (amended): a NAME value <title> STX <rest> with a non-empty <title>
\* gives the title <title>, and the body is the whole value, title and
\* separator included, with doubled STX turned into newlines; a written file
\* holds the note's title and body, once unescaped; the Soup note is written
\* with title Soup, body Soup STX Boil\nServe and a tag list holding Recipes.
C2_BodyIsWholeValue ==
    [][ /\ (ReadsNoteName /\ STX \in Range(ValueOf(line'))
              /\ Head(ValueOf(line')) # STX)
            => /\ Last(notes_').title_ = TitlePart(ValueOf(line'))
               /\ UnescapeXml(AsTomboyNote(Last(notes_'), options_).content)
                    = DoubledToNewline(ValueOf(line'))
        /\ (CreatesNote /\ Current.note_ # <<>> /\ ~OpenFailed)
            => LET doc == files'[OutFileName(Current, options_)] IN
               /\ UnescapeXml(doc.title) = Current.title_
               /\ UnescapeXml(doc.content) = Current.note_
        /\ (CreatesNote /\ ~OpenFailed /\ options_ = DefaultOptions
              /\ Current.uid_ = sAbc123 /\ Current.title_ = <<"S","o","u","p">>
              /\ Current.tags_ = <<sRecipes>>)
            => LET doc == files'[OutFileName(Current, options_)] IN
               /\ doc.title = <<"S","o","u","p">>
               /\ UnescapeXml(doc.content)
                    = <<"S","o","u","p",STX,"B","o","i","l",NL,"S","e","r","v","e">>
               /\ sRecipes \in Range(doc.tags) ]_vars

\* C2 witness: the run on the Soup example is done and abc123.note holds it.
C2_Witness ==
    /\ pc = "done"
    /\ options_ = DefaultOptions
    /\ Len(notes_) = 1
    /\ notes_[1].title_ = <<"S","o","u","p">>
    /\ notes_[1].tags_ = <<sRecipes>>
    /\ DOMAIN files = {sOutDir \o sSlash \o sAbc123 \o sDotNote}
    /\ files[sOutDir \o sSlash \o sAbc123 \o sDotNote].content
         = <<"S","o","u","p",STX,"B","o","i","l",NL,"S","e","r","v","e">>

\* C3: a #NOTE line read after a TRASH FOLDER=YES line of the current folder
\* header adds no note when export_trash is off, and adds exactly one note
\* when it is on.
C3_TrashedNotesSkipped ==
    [][ (ReadsLine /\ hdr_trashed /\ NameOf(line') = sNOTE)
        => IF ~options_.export_trash
           THEN notes_' = notes_
           ELSE /\ Len(notes_') = Len(notes_) + 1
                /\ SubSeq(notes_', 1, Len(notes_)) = notes_ ]_vars

\* C3 witness: with export_trash off, a #NOTE line was read under a trashed
\* folder header that follows an exported note.
C3_Witness ==
    /\ pc = "parse"
    /\ ~options_.export_trash
    /\ hdr_trashed
    /\ line = sNOTE
    /\ Len(notes_) = 1

\* C4 (as claimed): after a complete run without file failures the notes to
\* export have one file each: as many files carry their names as there are
\* such notes.
C4_OneFilePerNote ==
    (pc = "done" /\ MsgNoFile \notin Range(cerr))
    => Cardinality({f \in DOMAIN files :
                      \E k \in 1..Len(notes_) :
                         Exported(notes_[k]) /\ f = OutFileName(notes_[k], options_)})
         = Cardinality({k \in 1..Len(notes_) : Exported(notes_[k])})

\* The tags a note started now is to carry: the default tag if there is
\* one, then the current folder name if there is one.
ExpectedTags ==
    (IF options_.default_tag # <<>> THEN <<options_.default_tag>> ELSE <<>>)
    \o (IF current_folder_name # <<>> THEN <<current_folder_name>> ELSE <<>>)

NotebookPrefix == IF options_.convert_tags_to_notebooks THEN sNotebook ELSE <<>>

\* C5: a note's tags are set when its #NOTE line is read, to the default tag
\* (if any) followed by the current folder name (if any), and never change;
\* a written file holds one tag element per tag, in that order, each
\* prefixed with system:notebook: when tags are converted to notebooks.
C5_TagsFixedAndOrdered ==
    [][ /\ StartsNote
            => /\ Last(notes_').tags_ = ExpectedTags
               /\ Len(Last(notes_').tags_) <= 2
        /\ \A k \in 1..Len(notes_) :
               Len(notes_') >= k /\ notes_'[k].tags_ = notes_[k].tags_
        /\ (CreatesNote /\ Current.note_ # <<>> /\ ~OpenFailed)
            => LET doc == files'[OutFileName(Current, options_)] IN
               /\ Len(doc.tags) = Len(Current.tags_)
               /\ \A t \in 1..Len(Current.tags_) :
                     UnescapeXml(doc.tags[t]) = NotebookPrefix \o Current.tags_[t] ]_vars

\* C5 witness: a note with the default tag and a folder tag was written with
\* tags converted to notebooks.
C5_Witness ==
    /\ pc = "done"
    /\ options_.convert_tags_to_notebooks
    /\ Len(notes_) = 1
    /\ notes_[1].tags_ = <<sImported, sRecipes>>
    /\ DOMAIN files = {OutFileName(notes_[1], options_)}
    /\ files[OutFileName(notes_[1], options_)].tags
         = <<sNotebook \o sImported, sNotebook \o sRecipes>>

\* C8: a note without a NAME line, or with an empty NAME value, has an empty
\* body, and CreateTomboyNote on a note with an empty body creates no file
\* and prints only the skip message, whatever the uid.
C8_EmptyBodySkipped ==
    [][ /\ StartsNote => Last(notes_').note_ = <<>>
        /\ (ReadsNoteName /\ ValueOf(line') = <<>>) => Last(notes_').note_ = <<>>
        /\ (CreatesNote /\ Current.note_ = <<>>)
            => /\ files' = files
               /\ cerr' = cerr
               /\ cout' = Append(cout, MsgSkipEmpty) ]_vars

\* C8 witness: a note with a uid and an empty NAME value has been skipped.
C8_Witness ==
    /\ pc = "write"
    /\ i = 1
    /\ notes_[1].uid_ = sAbc123
    /\ notes_[1].title_ = sNoTitle
    /\ notes_[1].note_ = <<>>
    /\ cout = <<MsgSkipEmpty>>
    /\ cerr = <<>>
    /\ files = NoFiles

\* C9 (as claimed): once a #NOTE or #FOLDER line has been processed after a
\* note was started, no line read later changes any field of that note.
C9_ClosedNotesFrozen ==
    [][ ReadsLine
        => \A k \in 1..Len(notes_) :
              (k < Len(notes_) \/ in_folder) => notes_'[k] = notes_[k] ]_vars

\* C10: WriteFiles starts at the first note, calls CreateTomboyNote on each
\* note in order and ends only after the last; whatever happened to the notes
\* before, a note with a body is written unless its own file cannot be
\* opened, and a note without a body is skipped with the message.
C10_EveryNoteAttempted ==
    [][ /\ (pc = "parse" /\ pc' = "write") => i' = 0
        /\ (pc = "write" /\ i < Len(notes_))
            => /\ pc' = "write"
               /\ i' = i + 1
               /\ notes_' = notes_
               /\ Current.note_ = <<>> => cout' = Append(cout, MsgSkipEmpty)
               /\ Current.note_ # <<>>
                    => \/ OpenFailed
                       \/ /\ OutFileName(Current, options_) \in DOMAIN files'
                          /\ files'[OutFileName(Current, options_)]
                               = AsTomboyNote(Current, options_)
        /\ (pc = "write" /\ pc' = "done") => i = Len(notes_) ]_vars

\* C10 witness: the first note's file could not be created and the second
\* note was written all the same.
C10_Witness ==
    /\ pc = "done"
    /\ Len(notes_) = 2
    /\ Exported(notes_[1])
    /\ Exported(notes_[2])
    /\ notes_[1].uid_ # notes_[2].uid_
    /\ cerr = <<MsgNoFile>>
    /\ DOMAIN files = {OutFileName(notes_[2], options_)}

\* A non-empty run of decimal digits whose number fits 32 bits.
ValidUnsigned(v) ==
    /\ Len(v) > 0
    /\ \A k \in 1..Len(v) : IsDigit(v[k])
    /\ DecimalLoop(v, 0, <<0, 0>>) # BadLexicalCast

\* C11 (as claimed): a CREATED line that the trash rule lets through, read
\* after a note was started, whose value is not a valid unsigned decimal
\* integer ends the run in the fatal state; from there the writer never
\* starts and no file is written.
C11_BadCreatedIsFatal ==
    [][ /\ ( /\ ReadsKeptLine
             /\ NameOf(line') = sCREATED
             /\ notes_ # <<>>
             /\ ~ValidUnsigned(ValueOf(line')) )
            => pc' = "terminate"
        /\ pc = "terminate" => (pc' = "terminate" /\ files' = NoFiles) ]_vars

\* The input and the output are both given, positionally or by name.
BothGiven(args) ==
    /\ \E k \in 1..Len(args) : OptionName(args, k) = "input"
    /\ \E k \in 1..Len(args) : OptionName(args, k) = "output"

\* C12 (as claimed): when --help is given, or the input and the output are
\* not both given, main prints the usage and returns: ParseFile and
\* WriteFiles are not called.
C12_UsageUnlessBothGiven ==
    [][ ( /\ pc = "main"
          /\ pc' # "main"
          /\ (\E k \in 1..Len(argv) : argv[k].name = "help") \/ ~BothGiven(argv) )
        => /\ pc' \in {"usage", "badargs"}
           /\ MsgUsage \in Range(cout') \cup Range(cerr') ]_vars

\* C13 (as claimed): the title of a NAME value is the substring before the
\* first STX when the value holds an STX (the empty string when the value
\* begins with STX), and '<no-title>' when the value holds no STX.
C13_TitleBeforeFirstStx ==
    fn = "ParseNoteTitle"
        => res = (IF STX \in Range(arg) THEN TitlePart(arg) ELSE sNoTitle)

\* s[b..e] is the first maximal run of non-STX characters of s.
IsFirstRun(s, b, e) ==
    /\ b <= e
    /\ \A k \in 1..(b - 1) : s[k] = STX
    /\ \A k \in b..e : s[k] # STX
    /\ e = Len(s) \/ s[e + 1] = STX

\* C13 (amended): the title of a NAME value is its first maximal run of
\* non-STX characters: the text before the first STX when the value does not
\* begin with STX, the whole value when it holds no STX, the run after the
\* leading STX characters otherwise; it is '<no-title>' only when the value
\* holds no non-STX character.
C13_TitleIsFirstRun ==
    fn = "ParseNoteTitle"
        => /\ Range(arg) \subseteq {STX} => res = sNoTitle
           /\ ~(Range(arg) \subseteq {STX})
                => \E b, e \in 1..Len(arg) :
                       IsFirstRun(arg, b, e) /\ res = SubSeq(arg, b, e)
           /\ (arg # <<>> /\ Head(arg) # STX) => res = TitlePart(arg)
           /\ (arg # <<>> /\ STX \notin Range(arg)) => res = arg

\* C13 witness: the title of a value that begins with STX is the run after
\* it, not the empty string.
C13_Witness ==
    /\ fn = "ParseNoteTitle"
    /\ Len(arg) = 4
    /\ arg[1] = STX
    /\ arg[3] = STX
    /\ res = <<arg[2]>>
    /\ res # <<STX>>

\* The characters of s other than STX and newline, in order.
PlainChars(s) == SelectSeq(s, LAMBDA c : c \notin {STX, NL})

\* The places of s where a doubled STX is replaced, scanning left to right:
\* an STX pair whose first STX is not the second of an earlier pair.
RECURSIVE PairStarts(_, _)
PairStarts(s, from) ==
    IF from >= Len(s) THEN {}
    ELSE IF s[from] = STX /\ s[from + 1] = STX
         THEN {from} \cup PairStarts(s, from + 2)
         ELSE PairStarts(s, from + 1)

\* C14: the body of a NAME value is the value with every doubled STX, taken
\* left to right without overlap, replaced by one newline: one character
\* fewer for each replaced pair, every other character kept in order, and no
\* two adjacent STX in the result.
C14_DoubledStxToNewline ==
    fn = "ParseNote"
        => /\ res = DoubledToNewline(arg)
           /\ Len(res) = Len(arg) - Cardinality(PairStarts(arg, 1))
           /\ Cardinality({k \in 1..Len(res) : res[k] = NL})
                = Cardinality(PairStarts(arg, 1))
           /\ PlainChars(res) = PlainChars(arg)
           /\ \A k \in 1..(Len(res) - 1) : ~(res[k] = STX /\ res[k + 1] = STX)

\* C14 witness: of three STX in a row the first two became a newline and the
\* third stayed.
C14_Witness ==
    /\ fn = "ParseNote"
    /\ Len(arg) = 4
    /\ SubSeq(arg, 1, 3) = <<STX, STX, STX>>
    /\ res = <<NL, STX, arg[4]>>
    /\ arg[4] # STX

\* C15: a #FOLDER line, read in any parser state and under either setting of
\* export_trash, puts the parser in the folder header with the trash flag
\* off and changes no note; a #NOTE line read while the flag is off adds a
\* note. So the notes of a folder without a TRASH FOLDER line are added even
\* after a trashed folder.
C15_FolderResetsTrash ==
    [][ /\ (ReadsLine /\ NameOf(line') = sFOLDER)
            => /\ pc' = "parse"
               /\ in_folder'
               /\ ~in_trash'
               /\ notes_' = notes_
        /\ (ReadsLine /\ NameOf(line') = sNOTE /\ ~in_trash)
            => /\ pc' = "parse"
               /\ ~in_folder'
               /\ ~in_trash'
               /\ Len(notes_') = Len(notes_) + 1
               /\ SubSeq(notes_', 1, Len(notes_)) = notes_ ]_vars

\* C15 witness: with export_trash off, a #FOLDER line was read while the
\* trash flag was set; the flag is off and no note had been added before.
C15_Witness ==
    /\ pc = "parse"
    /\ ~options_.export_trash
    /\ line = sFOLDER
    /\ was_trash
    /\ in_folder
    /\ ~in_trash
    /\ notes_ = <<>>

\* This step reads a TRASH FOLDER=YES line.
ReadsTrashYes == ReadsLine /\ NameOf(line') = sTRASH /\ ValueOf(line') = sYES

\* C16 (as claimed): the trash flag goes from off to on only when a
\* TRASH FOLDER=YES line is read in a folder header; a TRASH FOLDER=YES line
\* read outside a header leaves the flag as it was.
C16_TrashSetInHeaderOnly ==
    [][ /\ (ReadsLine /\ ~in_trash /\ in_trash') => (ReadsTrashYes /\ in_folder)
        /\ (ReadsTrashYes /\ ~in_folder) => in_trash' = in_trash ]_vars

\* C16 (amended): the trash flag goes from off to on exactly when a
\* TRASH FOLDER=YES line is read, in a folder header or outside one; while
\* the flag is on and export_trash is off no line changes the notes, so a
\* TRASH FOLDER=YES line after a #NOTE line makes the following #NOTE lines
\* add nothing until the next #FOLDER line.
C16_TrashSetByAnyYesLine ==
    [][ ReadsLine
        => /\ (~in_trash /\ in_trash') <=> (~in_trash /\ ReadsTrashYes)
           /\ ReadsTrashYes => in_trash'
           /\ (in_trash' /\ ~options_.export_trash)
                => (notes_' = notes_ /\ in_folder' = in_folder) ]_vars

\* C16 witness: with export_trash off, a #NOTE line was read and skipped
\* under a flag that a TRASH FOLDER=YES line set after the first note, outside
\* any folder header.
C16_Witness ==
    /\ pc = "parse"
    /\ ~options_.export_trash
    /\ line = sNOTE
    /\ nread = 3
    /\ in_trash
    /\ ~in_folder
    /\ ~hdr_trashed
    /\ Len(notes_) = 1

\* C17: in a folder header a UNIQUEID or NAME line changes no note (no uid,
\* title or body) and leaves the header and the trash flag as they are; a
\* UNIQUEID line changes nothing at all, and a NAME line changes at most the
\* current folder name, to the first run of non-STX characters of its value.
C17_HeaderLinesLeaveNotes ==
    [][ (ReadsLine /\ in_folder /\ NameOf(line') \in {sUNIQUEID, sNAME})
        => /\ notes_' = notes_
           /\ in_folder'
           /\ in_trash' = in_trash
           /\ NameOf(line') = sUNIQUEID
                => (pc' = "parse" /\ current_folder_name' = current_folder_name)
           /\ (NameOf(line') = sNAME /\ current_folder_name' # current_folder_name)
                => \/ current_folder_name' = <<>>
                   \/ \E b, e \in 1..Len(ValueOf(line')) :
                        /\ IsFirstRun(ValueOf(line'), b, e)
                        /\ current_folder_name' = SubSeq(ValueOf(line'), b, e) ]_vars

\* C17 witness: a UNIQUEID line was read in the header of a folder that
\* follows a note with another uid, and the note kept its uid.
C17_Witness ==
    /\ pc = "parse"
    /\ in_folder
    /\ ~in_trash
    /\ NameOf(line) = sUNIQUEID
    /\ Len(notes_) = 1
    /\ notes_[1].uid_ # <<>>
    /\ notes_[1].uid_ # ValueOf(line)

\* This step reads a line that the code applies to notes_.rbegin(): a
\* UNIQUEID or NAME line outside a folder header, or a CREATED line.
ReadsNoteProperty ==
    /\ ReadsKeptLine
    /\ \/ NameOf(line') \in {sUNIQUEID, sNAME} /\ ~in_folder
       \/ NameOf(line') = sCREATED

\* C18 (as claimed): a UNIQUEID, NAME or CREATED line that would be applied
\* to the most recently started note while no note has been started takes a
\* defined error path: the run ends in the fatal state, it neither aborts on
\* an access to a note that does not exist nor reads on.
C18_PropertyNeedsNote ==
    [][ (ReadsNoteProperty /\ notes_ = <<>>) => pc' = "terminate" ]_vars

\* The tags of a note that has no folder-derived tag.
DefaultTags ==
    IF options_.default_tag # <<>> THEN <<options_.default_tag>> ELSE <<>>

\* C19 (as claimed), for the two headers that one step can see: a note
\* started right after a #FOLDER line (a header without a NAME line) gets no
\* folder-derived tag, and a note started right after the NAME line of a
\* header gets the name of that line as its folder-derived tag.
C19_FolderTagIsOfLastHeader ==
    [][ /\ (StartsNote /\ line = sFOLDER)
            => Last(notes_').tags_ = DefaultTags
        /\ (StartsNote /\ in_folder /\ NameOf(line) = sNAME
                /\ TitlePart(ValueOf(line)) # <<>>)
            => Last(notes_').tags_ = DefaultTags \o <<TitlePart(ValueOf(line))>>
      ]_vars

\* C20 (as claimed): a NAME line read in a folder header whose value has no
\* non-STX character (empty, or STX only) is handled without error: the
\* current folder name becomes empty and parsing goes on.
C20_EmptyFolderNameHandled ==
    [][ ( /\ ReadsKeptLine
          /\ in_folder
          /\ NameOf(line') = sNAME
          /\ Range(ValueOf(line')) \subseteq {STX} )
        => (pc' = "parse" /\ current_folder_name' = <<>>) ]_vars

====
